---- MODULE Spec2Model ----
(***************************************************************************)
(* Kamis price prediction service (agri-price-tracker, ml-model-service).  *)
(*                                                                         *)
(* Four specifications over one set of variables:                          *)
(*   Spec        the inference service (app.py) running beside the         *)
(*               training script (train-model.py): files on disk, the      *)
(*               in-memory artifacts dict, the background training task    *)
(*               and one predict request, each stepping line by line.      *)
(*   SpecPredict the data path of one /predict request (history            *)
(*               resolution, features, demo guard, trend, confidence).     *)
(*   SpecFeat    feature_engineering of the training script beside the     *)
(*               feature construction of the service.                      *)
(*   SpecMerge   load_and_merge_data of the training script.               *)
(* A specification leaves the variables of the others at their idle        *)
(* values.                                                                 *)
(***************************************************************************)
EXTENDS Integers, Sequences, FiniteSets, TLC

VARIABLES
    \* ---- Spec: service and training script ----
    disk,        \* the persisted files: generation written, 0 absent, Corrupt
    pipe,        \* the training script process: [pc, gen, rc, failed]
    runs,        \* number of training script runs started so far
    svc,         \* "down" before the startup event, "up" after it
    artifacts,   \* app.py's artifacts dict: generation held, 0 for None
    task,        \* run_training_task: [pc, snap]
    trainResp,   \* last answer of POST /train
    req,         \* the predict request in flight: [pc, entry, read, status]
    everFailed,  \* some pipeline stage or some load has raised
    \* ---- SpecPredict ----
    history_df,  \* artifacts["history_df"] as a table, <<>> when not loaded
    loaded,      \* artifacts["model"] is not None
    preq,        \* the PredictionRequest
    presp,       \* the response and the handler's locals
    prev,        \* matcher and confidence of an earlier successful response
    \* ---- SpecFeat ----
    df,          \* the cleaned training table handed to feature_engineering
    fe,          \* the table feature_engineering returns
    inf,         \* the service's features for one (entity, date) snapshot
    \* ---- SpecMerge ----
    master,      \* kamis_data.csv
    latest,      \* kamis_latest.csv
    merged       \* what load_and_merge_data last did: [state, old, delta, out]

svcVars   == <<disk, pipe, runs, svc, artifacts, task, trainResp, req, everFailed>>
predVars  == <<history_df, loaded, preq, presp, prev>>
featVars  == <<df, fe, inf>>
mergeVars == <<master, latest, merged>>
vars      == <<svcVars, predVars, featVars, mergeVars>>
nonSvc    == <<predVars, featVars, mergeVars>>
nonPred   == <<svcVars, featVars, mergeVars>>
nonFeat   == <<svcVars, predVars, mergeVars>>
nonMerge  == <<svcVars, predVars, featVars>>

\* ------------------------------------------------------------------ bounds
MaxRuns == 2     \* training script runs per behaviour

\* --------------------------------------------------------------- helpers
\* a file a failed write left truncated
Corrupt == 0 - 1

Abs(x) == IF x < 0 THEN -x ELSE x

Max(a, b) == IF a >= b THEN a ELSE b

Min(a, b) == IF a <= b THEN a ELSE b

RECURSIVE SumSeq(_)
SumSeq(s) == IF s = <<>> THEN 0 ELSE Head(s) + SumSeq(Tail(s))

\* s[-n:] of Python
LastN(s, n) == IF Len(s) <= n THEN s ELSE SubSeq(s, Len(s) - n + 1, Len(s))

\* ---- exact rationals [n, d], d > 0, in lowest terms: the floats of the code ----
RECURSIVE GCD(_, _)
GCD(a, b) == IF b = 0 THEN a ELSE GCD(b, a % b)

Rat(n, d) ==
    LET g == GCD(Abs(n), d) IN [n |-> n \div g, d |-> d \div g]

RInt(i) == [n |-> i, d |-> 1]

RAdd(a, b) == Rat(a.n * b.d + b.n * a.d, a.d * b.d)

RSub(a, b) == Rat(a.n * b.d - b.n * a.d, a.d * b.d)

RMul(a, b) == Rat(a.n * b.n, a.d * b.d)

\* a / b for b > 0
RDiv(a, b) == Rat(a.n * b.d, a.d * b.n)

RLt(a, b) == a.n * b.d < b.n * a.d

RAbs(a) == [n |-> Abs(a.n), d |-> a.d]

\* round(x * 10^2) of round(x, 2): to the nearest integer, a tie to the even one
RoundHalfEven(a) ==
    LET q == a.n \div a.d
        r == a.n % a.d
    IN  IF 2 * r < a.d THEN q
        ELSE IF 2 * r > a.d THEN q + 1
        ELSE IF q % 2 = 0 THEN q ELSE q + 1

\* ---- strings as sequences of characters ----
UpperCase == <<"A", "B", "C", "K", "M">>

LowerCase == <<"a", "b", "c", "k", "m">>

LowerChar(c) ==
    IF \E i \in 1..Len(UpperCase) : UpperCase[i] = c
    THEN LowerCase[CHOOSE i \in 1..Len(UpperCase) : UpperCase[i] = c]
    ELSE c

\* str.lower
Lower(s) == [i \in 1..Len(s) |-> LowerChar(s[i])]

StartsWith(s, pat) == Len(pat) <= Len(s) /\ SubSeq(s, 1, Len(pat)) = pat

\* pat in s
Contains(s, pat) ==
    \E i \in 1..(Len(s) + 1) :
        i + Len(pat) - 1 <= Len(s) /\ SubSeq(s, i, i + Len(pat) - 1) = pat

\* s.replace(old, ''), old not empty: every occurrence, left to right
RECURSIVE Remove(_, _)
Remove(s, old) ==
    IF s = <<>> THEN <<>>
    ELSE IF StartsWith(s, old) THEN Remove(SubSeq(s, Len(old) + 1, Len(s)), old)
    ELSE <<Head(s)>> \o Remove(Tail(s), old)

\* str.strip
RECURSIVE Strip(_)
Strip(s) ==
    IF s = <<>> THEN s
    ELSE IF Head(s) = " " THEN Strip(Tail(s))
    ELSE IF s[Len(s)] = " " THEN Strip(SubSeq(s, 1, Len(s) - 1))
    ELSE s

\* ===================================================== Spec: the service
ArtifactFiles == <<"model", "scaler", "encoder", "metadata">>

NoDisk == [model |-> 0, scaler |-> 0, encoder |-> 0, metadata |-> 0, recent |-> 0]

NoArtifacts ==
    [model |-> 0, scaler |-> 0, encoder |-> 0, metadata |-> 0, history_df |-> 0]

IdlePipe == [pc |-> "idle", gen |-> 0, rc |-> 0, failed |-> FALSE]

IdleTask == [pc |-> "idle", snap |-> NoArtifacts]

NoRead == [history_df |-> 0, encoder |-> 0, metadata |-> 0, scaler |-> 0, model |-> 0]

IdleReq == [pc |-> "none", entry |-> NoArtifacts, read |-> NoRead, status |-> 0]

NoRequest ==
    [commodity |-> "", market |-> "", county |-> "", days_ahead |-> 0,
     has_price |-> FALSE, current_price |-> 0]

\* a response not computed: no history resolved, no number in it
NoResponse(pc, status) ==
    [pc |-> pc, status |-> status, computed |-> FALSE, matcher |-> "none",
     history |-> <<>>, unit |-> "", guard |-> "none",
     current_price |-> 0, pred_val |-> [n |-> 0, d |-> 1], change |-> [n |-> 0, d |-> 1],
     predicted_price |-> 0, change_percentage |-> 0, trend |-> "", confidence |-> 0]

NoPrev == [matcher |-> "none", confidence |-> 0]

PredIdle ==
    /\ history_df = <<>>
    /\ loaded = FALSE
    /\ preq = NoRequest
    /\ presp = NoResponse("idle", 0)
    /\ prev = NoPrev

FeatIdle == df = <<>> /\ fe = <<>> /\ inf = [pc |-> "idle"]

MergeIdle == master = <<>> /\ latest = <<>> /\ merged = [state |-> "idle"]

SvcIdle ==
    /\ disk = NoDisk
    /\ pipe = IdlePipe
    /\ runs = 0
    /\ svc = "down"
    /\ artifacts = NoArtifacts
    /\ task = IdleTask
    /\ trainResp = "none"
    /\ req = IdleReq
    /\ everFailed = FALSE

Init == SvcIdle /\ PredIdle /\ FeatIdle /\ MergeIdle

\* ---- train-model.py as a process ----
PipeStopped == pipe.pc \in {"idle", "exited"}

\* python train_model.py is started (by the operator, or by the task below)
StartScript ==
    /\ PipeStopped
    /\ runs < MaxRuns
    /\ runs' = runs + 1
    /\ pipe' = [pc |-> "setup", gen |-> runs + 1, rc |-> 0, failed |-> FALSE]

\* the operator runs the script by hand before the service is started
RunScript ==
    /\ svc = "down"
    /\ StartScript
    /\ UNCHANGED <<nonSvc, disk, svc, artifacts, task, trainResp, req, everFailed>>

\* a stage raised inside the try of __main__: printed, the process ends normally
PipeCaught ==
    /\ pipe' = [pipe EXCEPT !.pc = "exited", !.rc = 0, !.failed = TRUE]
    /\ everFailed' = TRUE

\* lines 1-33: imports and os.makedirs run outside the try of __main__
PipeSetup ==
    /\ pipe.pc = "setup"
    /\ \/ pipe' = [pipe EXCEPT !.pc = "load_and_merge_data"] /\ UNCHANGED everFailed
       \/ /\ pipe' = [pipe EXCEPT !.pc = "exited", !.rc = 1, !.failed = TRUE]
          /\ everFailed' = TRUE
    /\ UNCHANGED <<nonSvc, disk, runs, svc, artifacts, task, trainResp, req>>

ComputeStages ==
    <<"load_and_merge_data", "preprocess_data", "feature_engineering", "train_model",
      "save_model">>

\* the four computing stages of __main__: each returns or raises
PipeStage ==
    /\ \E i \in 1..4 :
          /\ pipe.pc = ComputeStages[i]
          /\ \/ pipe' = [pipe EXCEPT !.pc = ComputeStages[i + 1]] /\ UNCHANGED everFailed
             \/ PipeCaught
    /\ UNCHANGED <<nonSvc, disk, runs, svc, artifacts, task, trainResp, req>>

SaveSteps == <<"save_model", "save_scaler", "save_encoder", "save_metadata", "save_recent">>

SaveFiles == <<"model", "scaler", "encoder", "metadata", "recent">>

SaveNext(i) == IF i < 5 THEN SaveSteps[i + 1] ELSE "exited"

\* one write of save_artifacts: the file is written; or the write raises, having
\* left the old file in place or a truncated one
SaveFile(i) ==
    /\ pipe.pc = SaveSteps[i]
    /\ \/ /\ disk' = [disk EXCEPT ![SaveFiles[i]] = pipe.gen]
          /\ pipe' = [pipe EXCEPT !.pc = SaveNext(i)]
          /\ UNCHANGED everFailed
       \/ /\ \E left \in {disk[SaveFiles[i]], Corrupt} :
                 disk' = [disk EXCEPT ![SaveFiles[i]] = left]
          /\ PipeCaught

PipeSave ==
    /\ \E i \in 1..5 : SaveFile(i)
    /\ UNCHANGED <<nonSvc, runs, svc, artifacts, task, trainResp, req>>

\* ---- app.py: startup ----
Loadable(f) == disk[f] > 0

\* load_artifacts (startup event): runs before any request is served
LoadArtifacts ==
    /\ svc = "down"
    /\ PipeStopped            \* the operator starts the service after the script ended
    /\ svc' = "up"
    /\ IF disk.model = 0
       THEN UNCHANGED <<artifacts, everFailed>>                 \* lines 63-65
       ELSE LET n == IF \E i \in 1..4 : ~Loadable(ArtifactFiles[i])
                     THEN (CHOOSE i \in 1..4 : /\ ~Loadable(ArtifactFiles[i])
                                               /\ \A j \in 1..(i - 1) :
                                                     Loadable(ArtifactFiles[j])) - 1
                     ELSE 4
                got == [f \in {"model", "scaler", "encoder", "metadata"} |->
                          IF \E i \in 1..n : ArtifactFiles[i] = f THEN disk[f] ELSE 0]
            IN  /\ artifacts' =
                      [model |-> got.model, scaler |-> got.scaler,
                       encoder |-> got.encoder, metadata |-> got.metadata,
                       history_df |-> IF n = 4 /\ Loadable("recent")
                                      THEN disk.recent ELSE 0]
                /\ everFailed' = (everFailed \/ n < 4 \/ disk.recent = Corrupt)
    /\ UNCHANGED <<nonSvc, disk, pipe, runs, task, trainResp, req>>

\* ---- app.py: POST /train and the background task ----
TaskStopped == task.pc \in {"idle", "reloaded", "train_failed", "task_error"}

\* trigger_training: 500 when the script is not where TRAIN_SCRIPT_PATH says
TriggerTraining ==
    /\ svc = "up"
    /\ TaskStopped
    /\ PipeStopped
    /\ runs < MaxRuns
    /\ \/ /\ trainResp' = "500"
          /\ UNCHANGED task
       \/ /\ trainResp' = "accepted"
          /\ task' = [pc |-> "start", snap |-> artifacts]
    /\ UNCHANGED <<nonSvc, disk, pipe, runs, svc, artifacts, req, everFailed>>

\* run_training_task, line 91: subprocess.run starts the script and waits
TaskSpawn ==
    /\ task.pc = "start"
    /\ StartScript
    /\ task' = [task EXCEPT !.pc = "subprocess"]
    /\ UNCHANGED <<nonSvc, disk, svc, artifacts, trainResp, req, everFailed>>

\* subprocess.run returns: check=True raises CalledProcessError on a nonzero exit
TaskWait ==
    /\ task.pc = "subprocess"
    /\ pipe.pc = "exited"
    /\ task' = [task EXCEPT !.pc = IF pipe.rc # 0 THEN "train_failed" ELSE "load_model"]
    /\ UNCHANGED <<nonSvc, disk, pipe, runs, svc, artifacts, trainResp, req, everFailed>>

LoadSteps == <<"load_model", "load_scaler", "load_encoder", "load_metadata", "load_history">>

\* lines 102-106: one assignment artifacts[f] = load(file) of the reload
TaskLoad ==
    /\ \E i \in 1..4 :
          /\ task.pc = LoadSteps[i]
          /\ IF Loadable(ArtifactFiles[i])
             THEN /\ artifacts' = [artifacts EXCEPT ![ArtifactFiles[i]] = disk[ArtifactFiles[i]]]
                  /\ task' = [task EXCEPT !.pc = LoadSteps[i + 1]]
                  /\ UNCHANGED everFailed
             ELSE /\ task' = [task EXCEPT !.pc = "task_error"]
                  /\ everFailed' = TRUE
                  /\ UNCHANGED artifacts
    /\ UNCHANGED <<nonSvc, disk, pipe, runs, svc, trainResp, req>>

\* lines 108-114: the history extract, when the file exists
TaskLoadHistory ==
    /\ task.pc = "load_history"
    /\ IF disk.recent = Corrupt
       THEN /\ task' = [task EXCEPT !.pc = "task_error"]
            /\ everFailed' = TRUE
            /\ UNCHANGED artifacts
       ELSE /\ task' = [task EXCEPT !.pc = "reloaded"]
            /\ artifacts' = [artifacts EXCEPT
                                !.history_df = IF disk.recent = 0 THEN @ ELSE disk.recent]
            /\ UNCHANGED everFailed
    /\ UNCHANGED <<nonSvc, disk, pipe, runs, svc, trainResp, req>>

\* ---- app.py: POST /predict, one read of the artifacts dict per step ----
ReqStopped == req.pc \in {"none", "done"}

Answer(r, status) == [r EXCEPT !.pc = "done", !.status = status]

\* line 229
PredictCheck ==
    /\ svc = "up"
    /\ ReqStopped
    /\ LET r == [IdleReq EXCEPT !.entry = artifacts]
       IN  req' = IF artifacts.model = 0 THEN Answer(r, 503)
                  ELSE [r EXCEPT !.pc = "history"]
    /\ UNCHANGED <<nonSvc, disk, pipe, runs, svc, artifacts, task, trainResp, everFailed>>

\* get_features_and_price, lines 155-156
PredictHistory ==
    /\ req.pc = "history"
    /\ req' = [req EXCEPT !.pc = "encoder", !.read.history_df = artifacts.history_df]
    /\ UNCHANGED <<nonSvc, disk, pipe, runs, svc, artifacts, task, trainResp, everFailed>>

\* get_features_and_price, lines 199-210: a missing encoder raises inside the
\* bare try and the sentinel codes are used
PredictEncode ==
    /\ req.pc = "encoder"
    /\ req' = [req EXCEPT !.pc = "metadata", !.read.encoder = artifacts.encoder]
    /\ UNCHANGED <<nonSvc, disk, pipe, runs, svc, artifacts, task, trainResp, everFailed>>

\* line 239: None['features'] raises, caught at line 298
PredictMetadata ==
    /\ req.pc = "metadata"
    /\ req' = IF artifacts.metadata = 0 THEN Answer(req, 500)
              ELSE [req EXCEPT !.pc = "scaler", !.read.metadata = artifacts.metadata]
    /\ UNCHANGED <<nonSvc, disk, pipe, runs, svc, artifacts, task, trainResp, everFailed>>

\* line 241
PredictScale ==
    /\ req.pc = "scaler"
    /\ req' = IF artifacts.scaler = 0 THEN Answer(req, 500)
              ELSE [req EXCEPT !.pc = "model", !.read.scaler = artifacts.scaler]
    /\ UNCHANGED <<nonSvc, disk, pipe, runs, svc, artifacts, task, trainResp, everFailed>>

\* lines 245-296
PredictModel ==
    /\ req.pc = "model"
    /\ req' = Answer([req EXCEPT !.read.model = artifacts.model], 200)
    /\ UNCHANGED <<nonSvc, disk, pipe, runs, svc, artifacts, task, trainResp, everFailed>>

Next ==
    \/ RunScript
    \/ PipeSetup
    \/ PipeStage
    \/ PipeSave
    \/ LoadArtifacts
    \/ TriggerTraining
    \/ TaskSpawn
    \/ TaskWait
    \/ TaskLoad
    \/ TaskLoadHistory
    \/ PredictCheck
    \/ PredictHistory
    \/ PredictEncode
    \/ PredictMetadata
    \/ PredictScale
    \/ PredictModel

Spec == Init /\ [][Next]_vars

\* ============================================ SpecPredict: POST /predict
\* Observed and client prices are whole shillings; the regressor's output, means,
\* changes and predicted prices are exact rationals.  A standard deviation is
\* carried as its square.
lags == <<1, 3, 7, 14, 21, 28, 30>>

windows == <<7, 14, 30>>

HistoryTail == 40

FlatLen == 10

ConfidentDepth == 14

Horizon == 7

DampenAbove == 15

ClampAbove == 20

TrendPct == 2

SeedMod == 7

SeedBase == 2

MaxHist == 41    \* longest entity series of the history extract

Lens == {0, 1, ConfidentDepth - 1, ConfidentDepth, MaxHist}

\* lengths of the second series, which only the county matcher reads
AhoLens == {0, 1, ConfidentDepth}

\* the characters of the strings of the model
Chars(str) ==
    CASE str = " Market"    -> <<" ", "M", "a", "r", "k", "e", "t">>
      [] str = "Maize"      -> <<"M", "a", "i", "z", "e">>
      [] str = "Cow"        -> <<"C", "o", "w">>
      [] str = "Kib"        -> <<"K", "i", "b">>
      [] str = "Aho"        -> <<"A", "h", "o">>
      [] str = "Kib Market" -> <<"K", "i", "b", " ", "M", "a", "r", "k", "e", "t">>
      [] str = "ki"         -> <<"k", "i">>
      [] str = "X"          -> <<"X">>
      [] str = "("          -> <<"(">>
      [] str = "cow"        -> <<"c", "o", "w">>
      [] str = "goat"       -> <<"g", "o", "a", "t">>
      [] str = "sheep"      -> <<"s", "h", "e", "e", "p">>
      [] str = "bag"        -> <<"b", "a", "g">>
      [] str = ")"          -> <<")">>
      [] str = ""           -> <<>>

\* the extract holds two Maize series of county Kisumu, at the markets Aho and
\* Kib, ordered as save_artifacts writes them; slot t of MaxHist is one day
KibPrice(t) == 100 + 2 * ((MaxHist - t) % 5) + ((MaxHist - t) \div 10)

AhoPrice(t) == 40 + ((MaxHist - t) % 3)

Row(date, market, retail) ==
    [Date |-> date, Commodity |-> "Maize", Market |-> market, County |-> "Kisumu",
     Retail |-> retail, Unit |-> "kg"]

Table(nK, nA) ==
    [j \in 1..nA |-> Row(2 * (MaxHist - nA + j), "Aho", AhoPrice(MaxHist - nA + j))]
    \o [j \in 1..nK |-> Row(2 * (MaxHist - nK + j) - 1, "Kib", KibPrice(MaxHist - nK + j))]

Commodities == {"Maize", "Cow"}

Markets == {"Kib", "Kib Market", "ki", "X", "("}

Counties == {"Kisumu", "Nairobi"}

DaysAhead == {Horizon, 2 * Horizon}

\* current_price is any float: a negative one, zero, a plausible one
ClientPrices == {0 - 50, 0, 50}

\* what the regressor may return, in thousandths of a shilling
RawOutputs == {0 - 5000, 0, 10000, 40000, 97996, 100004, 102000, 102004, 118000, 250000}

\* line 274: the bound of the jitter, in hundredths of a percent
JitterPct == 120

\* random.uniform(-1.2, 1.2), in thousandths of a percent
Jitters == {0 - 10 * JitterPct, 0 - 7, 0, 10 * JitterPct}

Requests ==
    [commodity : Commodities, market : Markets, county : Counties,
     days_ahead : DaysAhead, has_price : {TRUE}, current_price : ClientPrices]
    \cup [commodity : Commodities, market : Markets, county : Counties,
          days_ahead : DaysAhead, has_price : {FALSE}, current_price : {0}]

\* extract_unit_api
extract_unit_api(commodity_name) ==
    LET name == Lower(Chars(commodity_name))
    IN  IF \/ Contains(name, Chars("cow"))
           \/ Contains(name, Chars("goat"))
           \/ Contains(name, Chars("sheep"))
        THEN "head"
        ELSE IF Contains(name, Chars("bag")) THEN "bag" ELSE "kg"

\* line 157
ExactRows(t, commodity, market, county) ==
    LET Keep(r) == r.Commodity = commodity /\ r.Market = market /\ r.County = county
    IN  SelectSeq(t, Keep)

market_simple(market) == Strip(Remove(Chars(market), Chars(" Market")))

\* the pattern of str.contains is a regular expression: an unclosed "(" does not compile
RegexError(pat) == Contains(pat, Chars("(")) /\ ~Contains(pat, Chars(")"))

\* line 162
SubstringRows(t, commodity, market) ==
    LET pat     == Lower(market_simple(market))
        Keep(r) == /\ r.Commodity = commodity
                   /\ Contains(Lower(Chars(r.Market)), pat)
    IN  SelectSeq(t, Keep)

\* line 166
CountyRows(t, commodity, county) ==
    LET Keep(r) == r.Commodity = commodity /\ r.County = county
    IN  SelectSeq(t, Keep)

EarlierDate(a, b) == a.Date < b.Date

\* sort_values('Date'), on rows of distinct dates
SortByDate(t) == SortSeq(t, EarlierDate)

\* ResolveHistory with the commodity+county matcher tried before the substring one
ResolveHistoryCountyFirst(t, r) ==
    LET exact  == ExactRows(t, r.commodity, r.market, r.county)
        cnty   == IF exact = <<>> THEN CountyRows(t, r.commodity, r.county) ELSE exact
        subset == IF cnty = <<>> THEN SubstringRows(t, r.commodity, r.market) ELSE cnty
        sorted == SortByDate(subset)
        found  == [i \in 1..Len(sorted) |-> sorted[i].Retail]
        flat   == found = <<>> /\ r.has_price /\ r.current_price > 0
        prices == IF flat THEN [i \in 1..FlatLen |-> r.current_price]
                  ELSE LastN(found, HistoryTail)
    IN  [raised  |-> FALSE,
         matcher |-> IF exact # <<>> THEN "exact"
                     ELSE IF cnty # <<>> THEN "county"
                     ELSE IF subset # <<>> THEN "substring"
                     ELSE IF flat THEN "flat" ELSE "none",
         prices  |-> prices,
         unit    |-> IF prices = <<>> THEN extract_unit_api(r.commodity)
                     ELSE IF subset # <<>> THEN sorted[Len(sorted)].Unit ELSE "kg"]

\* lines 155-179: which matcher supplied the rows, the prices and the unit
ResolveHistory(t, r) ==
    LET exact  == ExactRows(t, r.commodity, r.market, r.county)
        substr == IF exact = <<>> THEN SubstringRows(t, r.commodity, r.market) ELSE exact
        subset == IF substr = <<>> THEN CountyRows(t, r.commodity, r.county) ELSE substr
        sorted == SortByDate(subset)
        found  == [i \in 1..Len(sorted) |-> sorted[i].Retail]
        flat   == found = <<>> /\ r.has_price /\ r.current_price > 0
        prices == IF flat THEN [i \in 1..FlatLen |-> r.current_price]
                  ELSE LastN(found, HistoryTail)
    IN  [raised  |-> t # <<>> /\ exact = <<>> /\ RegexError(market_simple(r.market)),
         matcher |-> IF exact # <<>> THEN "exact"
                     ELSE IF substr # <<>> THEN "substring"
                     ELSE IF subset # <<>> THEN "county"
                     ELSE IF flat THEN "flat" ELSE "none",
         prices  |-> prices,
         unit    |-> IF prices = <<>> THEN extract_unit_api(r.commodity)
                     ELSE IF subset # <<>> THEN sorted[Len(sorted)].Unit ELSE "kg"]

\* lines 181-187
LagFeature(prices, lag) ==
    IF Len(prices) >= lag THEN RInt(prices[Len(prices) - lag + 1])
    ELSE IF Len(prices) > 0 THEN RInt(prices[Len(prices)]) ELSE RInt(0)

\* np.mean
Mean(x) == Rat(SumSeq(x), Len(x))

SumSq(x) == SumSeq([i \in 1..Len(x) |-> x[i] * x[i]])

\* np.std squared (ddof = 0)
PopVariance(x) == Rat(Len(x) * SumSq(x) - SumSeq(x) * SumSeq(x), Len(x) * Len(x))

\* lines 189-197
MaFeature(prices, w) == IF Len(prices) > 0 THEN Mean(LastN(prices, w)) ELSE RInt(0)

StdFeature(prices, w) ==
    IF Len(prices) > 0 /\ Len(LastN(prices, w)) > 1 THEN PopVariance(LastN(prices, w))
    ELSE RInt(0)

LagSet == {lags[i] : i \in 1..Len(lags)}

WindowSet == {windows[i] : i \in 1..Len(windows)}

HistoryFeatures(prices) ==
    [lag  |-> [k \in LagSet |-> LagFeature(prices, k)],
     ma   |-> [w \in WindowSet |-> MaFeature(prices, w)],
     std2 |-> [w \in WindowSet |-> StdFeature(prices, w)]]

\* line 237
CurrentPrice(prices, r) ==
    IF Len(prices) > 0 THEN prices[Len(prices)]
    ELSE IF r.has_price THEN r.current_price ELSE 0

\* line 250, for current_price > 0
Change(pred, cur) == RMul(RDiv(RSub(pred, RInt(cur)), RInt(cur)), RInt(100))

\* lines 253-270
DemoGuard(pred, cur, commodity) ==
    LET change    == Change(pred, cur)
        direction == IF RLt(RInt(0), change) THEN 1 ELSE 0 - 1
        dampened_pred   == RDiv(RAdd(pred, RInt(3 * cur)), RInt(4))
        dampened_change == Change(dampened_pred, cur)
        seed      == (Len(Chars(commodity)) + cur) % SeedMod
        safe_pct  == SeedBase + seed
    IN  IF ~RLt(RInt(DampenAbove), RAbs(change))
        THEN [guard |-> "none", pred_val |-> pred, change |-> change]
        ELSE IF RLt(RInt(ClampAbove), RAbs(dampened_change))
        THEN [guard |-> "clamped",
              pred_val |-> RMul(RInt(cur), RAdd(RInt(1), Rat(direction * safe_pct, 100))),
              change |-> RInt(direction * safe_pct)]
        ELSE [guard |-> "dampened", pred_val |-> dampened_pred,
              change |-> dampened_change]

\* line 273
NeedsJitter(g) == RLt(RAbs(g.change), Rat(1, 10))

\* lines 274-276: jitter is in thousandths of a percent
Jitter(cur, jitter) ==
    [guard |-> "jitter",
     pred_val |-> RMul(RInt(cur), RAdd(RInt(1), RDiv(Rat(jitter, 1000), RInt(100)))),
     change |-> Rat(jitter, 1000)]

\* lines 245-276: what the handler may hold before line 278, over the draws of
\* random.uniform
Guarded(cur, raw, commodity) ==
    LET pred == Rat(Max(0, raw), 1000)
        g    == IF cur > 0 THEN DemoGuard(pred, cur, commodity)
                ELSE [guard |-> "none", pred_val |-> pred, change |-> RInt(0)]
    IN  IF NeedsJitter(g) THEN {Jitter(cur, j) : j \in Jitters} ELSE {g}

\* Trend with the bounds included (>= 2, <= -2)
TrendInclusive(change) ==
    IF ~RLt(RInt(0 - TrendPct), change) THEN "falling"
    ELSE IF ~RLt(change, RInt(TrendPct)) THEN "rising" ELSE "stable"

\* lines 278-280
Trend(change) ==
    IF RLt(change, RInt(0 - TrendPct)) THEN "falling"
    ELSE IF RLt(RInt(TrendPct), change) THEN "rising" ELSE "stable"

\* lines 282-283, in hundredths (0.94, 0.82)
Confidence(history) == IF Len(history) >= ConfidentDepth THEN 94 ELSE 82

\* lines 278-300 with every artifact loaded, h what get_features_and_price resolved
Respond(h, cur, g) ==
    IF h.raised THEN [NoResponse("done", 500) EXCEPT !.computed = TRUE]
    ELSE [pc |-> "done", status |-> 200, computed |-> TRUE, matcher |-> h.matcher,
              history |-> h.prices, unit |-> h.unit, guard |-> g.guard,
              current_price |-> cur, pred_val |-> g.pred_val, change |-> g.change,
              predicted_price |-> RoundHalfEven(RMul(g.pred_val, RInt(100))),
              change_percentage |-> RoundHalfEven(RMul(g.change, RInt(100))),
              trend |-> Trend(g.change), confidence |-> Confidence(h.prices)]

\* predict_price
PredictPrice ==
    /\ presp.pc = "idle"
    /\ \E r \in Requests :
          LET h   == ResolveHistory(history_df, r)
              cur == CurrentPrice(h.prices, r)
          IN  /\ preq' = r
              /\ IF ~loaded THEN presp' = NoResponse("done", 503)
                 ELSE \E raw \in RawOutputs :
                         \E g \in Guarded(cur, raw, r.commodity) :
                            presp' = Respond(h, cur, g)
    /\ UNCHANGED <<nonPred, history_df, loaded, prev>>

\* the response is sent; prev keeps it, or keeps an earlier one
NextRequest ==
    /\ presp.pc = "done"
    /\ \/ prev' = prev
       \/ /\ presp.status = 200
          /\ prev' = [matcher |-> presp.matcher, confidence |-> presp.confidence]
    /\ preq' = NoRequest
    /\ presp' = NoResponse("idle", 0)
    /\ UNCHANGED <<nonPred, history_df, loaded>>

InitPredict ==
    /\ SvcIdle /\ FeatIdle /\ MergeIdle
    /\ \E nK \in Lens, nA \in AhoLens : history_df = Table(nK, nA)
    /\ loaded \in BOOLEAN
    /\ preq = NoRequest
    /\ presp = NoResponse("idle", 0)
    /\ prev = NoPrev

NextPredict ==
    \/ PredictPrice
    \/ NextRequest

SpecPredict == InitPredict /\ [][NextPredict]_vars

\* =================================== SpecFeat: training and serving features
MaxSeries == 3   \* rows per entity in the training table

RetailChoices == {10, 12}

\* not a number: a rational of denominator 0
NaN == [n |-> 0, d |-> 0]

\* the names of the model in the order Python compares strings
NameOrder == <<"Aho", "Kib", "Kisumu", "Maize">>

NameRank(str) == CHOOSE i \in 1..Len(NameOrder) : NameOrder[i] = str

SameEntity(a, b) ==
    a.Commodity = b.Commodity /\ a.Market = b.Market /\ a.County = b.County

\* the order of sort_values(['Commodity', 'Market', 'County', 'Date'])
EntityDateLess(a, b) ==
    \/ NameRank(a.Commodity) < NameRank(b.Commodity)
    \/ /\ a.Commodity = b.Commodity
       /\ \/ NameRank(a.Market) < NameRank(b.Market)
          \/ /\ a.Market = b.Market
             /\ \/ NameRank(a.County) < NameRank(b.County)
                \/ a.County = b.County /\ a.Date < b.Date

\* the rows of sorted[i]'s group, in order, up to and including sorted[i]
GroupUpTo(sorted, i) ==
    LET Mine(r) == SameEntity(r, sorted[i])
    IN  SelectSeq(SubSeq(sorted, 1, i), Mine)

\* the whole sorted table in place of the group of sorted[i]
UngroupedOf(sorted, i) == sorted

GroupOf(sorted, i) ==
    LET Mine(r) == SameEntity(r, sorted[i])
    IN  SelectSeq(sorted, Mine)

Retails(rows) == [j \in 1..Len(rows) |-> rows[j].Retail]

\* groupby(...)['Retail'].shift(k) at position p of the group's prices x
Shift(x, p, k) == IF p - k >= 1 /\ p - k <= Len(x) THEN RInt(x[p - k]) ELSE NaN

\* rolling(window=w, min_periods=1).mean() at position p
RollingMean(x, p, w) == Mean(SubSeq(x, Max(1, p - w + 1), p))

\* the square of Series.std (ddof = 1) of x; NaN for fewer than two values
SampleVariance(x) ==
    IF Len(x) < 2 THEN NaN
    ELSE Rat(Len(x) * SumSq(x) - SumSeq(x) * SumSeq(x), Len(x) * (Len(x) - 1))

\* rolling(window=w, min_periods=1).std() at position p, squared
RollingStd(x, p, w) == SampleVariance(SubSeq(x, Max(1, p - w + 1), p))

\* feature_engineering: lines 103 and 116-130
feature_engineering(t) ==
    LET sorted == SortSeq(t, EntityDateLess)
    IN  [i \in 1..Len(sorted) |->
            LET x == Retails(GroupOf(sorted, i))
                p == Len(GroupUpTo(sorted, i))
            IN  [Date |-> sorted[i].Date, Commodity |-> sorted[i].Commodity,
                 Market |-> sorted[i].Market, County |-> sorted[i].County,
                 Retail |-> sorted[i].Retail, Unit |-> sorted[i].Unit,
                 lag  |-> [k \in LagSet |-> Shift(x, p, k)],
                 ma   |-> [w \in WindowSet |-> RollingMean(x, p, w)],
                 std2 |-> [w \in WindowSet |-> RollingStd(x, p, w)],
                 target_retail |-> Shift(x, p, 0 - Horizon)]]

TrainRow(date, market, retail) ==
    [Date |-> date, Commodity |-> "Maize", Market |-> market, County |-> "Kisumu",
     Retail |-> retail, Unit |-> "kg"]

\* every series of up to MaxSeries daily prices
SeriesChoices == UNION {[1..n -> RetailChoices] : n \in 0..MaxSeries}

\* the cleaned table of two series, in the date order load_and_merge_data leaves
TrainTable(kib, aho) ==
    LET rows == [j \in 1..Len(kib) |-> TrainRow(j, "Kib", kib[j])]
                \o [j \in 1..Len(aho) |-> TrainRow(j, "Aho", aho[j])]
    IN  SortSeq(rows, EarlierDate)

\* the service asked about the entity of row i of df, its history extract being
\* that entity's rows up to the date of row i (get_features_and_price, 155-197)
ServingFeatures(t, i) ==
    LET Snap(r) == SameEntity(r, t[i]) /\ r.Date <= t[i].Date
        h == ResolveHistory(SelectSeq(t, Snap),
                            [commodity |-> t[i].Commodity, market |-> t[i].Market,
                             county |-> t[i].County, days_ahead |-> Horizon,
                             has_price |-> FALSE, current_price |-> 0])
    IN  [pc |-> "done", Date |-> t[i].Date, Commodity |-> t[i].Commodity,
         Market |-> t[i].Market, County |-> t[i].County,
         prices |-> h.prices, features |-> HistoryFeatures(h.prices)]

FeatureEngineering ==
    /\ fe = <<>>
    /\ df # <<>>
    /\ fe' = feature_engineering(df)
    /\ UNCHANGED <<nonFeat, df, inf>>

GetFeatures ==
    /\ \E i \in 1..Len(df) : inf' = ServingFeatures(df, i)
    /\ UNCHANGED <<nonFeat, df, fe>>

InitFeat ==
    /\ SvcIdle /\ PredIdle /\ MergeIdle
    /\ \E kib \in SeriesChoices, aho \in SeriesChoices : df = TrainTable(kib, aho)
    /\ fe = <<>>
    /\ inf = [pc |-> "idle"]

NextFeat ==
    \/ FeatureEngineering
    \/ GetFeatures

SpecFeat == InitFeat /\ [][NextFeat]_vars

\* ================================== SpecMerge: the master history and a delta
MaxMaster == 2   \* rows of the history file at the start
MaxLatest == 2   \* rows of a scraped delta

NaT == 0

\* pd.to_datetime(..., errors='coerce') on the texts of the model: the day
\* number of a date, NaT for anything else
to_datetime(str) ==
    CASE str = "2024-01-05" -> 5
      [] str = "2024-01-06" -> 6
      [] OTHER -> NaT

\* dt.strftime('%Y-%m-%d')
strftime(day) ==
    CASE day = 5 -> "2024-01-05"
      [] day = 6 -> "2024-01-06"
      [] OTHER -> "NaT"

CsvRow(date, market, retail) ==
    [Date |-> date, Commodity |-> "Maize", Market |-> market, County |-> "Kisumu",
     Retail |-> retail]

\* the rows a file of the model may hold
CsvRows ==
    {CsvRow("2024-01-05", "Kib", 10), CsvRow("2024-01-05", "Kib", 12),
     CsvRow("2024-01-06", "Kib", 10), CsvRow("2024-01-05", "Aho", 10),
     CsvRow("n/a", "Kib", 10)}

CsvFiles(n) == UNION {[1..m -> CsvRows] : m \in 0..n}

\* df['Date'] = pd.to_datetime(df['Date'], errors='coerce')
ParseDates(rows) ==
    [i \in 1..Len(rows) |-> [rows[i] EXCEPT !.Date = to_datetime(rows[i].Date)]]

\* df.dropna(subset=['Date'])
DropNaT(rows) ==
    LET Dated(r) == r.Date # NaT
    IN  SelectSeq(rows, Dated)

SameKey(a, b) ==
    a.Date = b.Date /\ a.Commodity = b.Commodity /\ a.Market = b.Market
    /\ a.County = b.County

\* a variant of drop_duplicates that keeps the first row of each key
drop_duplicates_first(rows) ==
    LET Keep(i) == \A j \in 1..(i - 1) : ~SameKey(rows[i], rows[j])
        kept == {i \in 1..Len(rows) : Keep(i)}
        F[i \in 0..Len(rows)] ==
            IF i = 0 THEN <<>>
            ELSE IF i \in kept THEN Append(F[i - 1], rows[i]) ELSE F[i - 1]
    IN  F[Len(rows)]

\* df.drop_duplicates(subset=['Date','Commodity','Market','County'], keep='last')
drop_duplicates(rows) ==
    LET Keep(i) == \A j \in (i + 1)..Len(rows) : ~SameKey(rows[i], rows[j])
        kept == {i \in 1..Len(rows) : Keep(i)}
        F[i \in 0..Len(rows)] ==
            IF i = 0 THEN <<>>
            ELSE IF i \in kept THEN Append(F[i - 1], rows[i]) ELSE F[i - 1]
    IN  F[Len(rows)]

\* df.sort_values(by='Date'): every date-ordered arrangement of the rows, the
\* default sort giving no order among rows of one date
sort_values(rows) ==
    LET n == Len(rows)
        perms == {f \in [1..n -> 1..n] : \A i, j \in 1..n : i # j => f[i] # f[j]}
    IN  {[i \in 1..n |-> rows[f[i]]] : f \in
            {g \in perms : \A i \in 1..(n - 1) : rows[g[i]].Date <= rows[g[i + 1]].Date}}

\* df_save['Date'] = df_save['Date'].dt.strftime('%Y-%m-%d')
FormatDates(rows) ==
    [i \in 1..Len(rows) |-> [rows[i] EXCEPT !.Date = strftime(rows[i].Date)]]

\* load_and_merge_data: reads both files, raises when both are empty, else
\* writes the merged table back as the history file and returns it
load_and_merge_data ==
    /\ merged.state = "idle"
    /\ IF master = <<>> /\ latest = <<>>
       THEN /\ merged' = [state |-> "raised", history |-> master, delta |-> latest,
                          df |-> <<>>]
            /\ UNCHANGED master
       ELSE \E out \in sort_values(drop_duplicates(DropNaT(ParseDates(master \o latest)))) :
                /\ master' = FormatDates(out)
                /\ merged' = [state |-> "done", history |-> master, delta |-> latest,
                              df |-> out]
    /\ UNCHANGED <<nonMerge, latest>>

\* kamis_scraper: a later scrape replaces the delta file
Scrape ==
    /\ merged.state # "idle"
    /\ latest' \in CsvFiles(MaxLatest)
    /\ merged' = [state |-> "idle"]
    /\ UNCHANGED <<nonMerge, master>>

InitMerge ==
    /\ SvcIdle /\ PredIdle /\ FeatIdle
    /\ master \in CsvFiles(MaxMaster)
    /\ latest \in CsvFiles(MaxLatest)
    /\ merged = [state |-> "idle"]

NextMerge ==
    \/ load_and_merge_data
    \/ Scrape

SpecMerge == InitMerge /\ [][NextMerge]_vars

\* ---------------------------------------------------------------- claims
Incomplete(a) == a.model = 0 \/ a.scaler = 0 \/ a.encoder = 0 \/ a.metadata = 0

SameGeneration(r) ==
    /\ r.model = r.scaler
    /\ r.model = r.encoder
    /\ r.model = r.metadata

\* C1: no predict request reads a model of one artifact generation together with
\* a scaler, an encoder or a feature-order list (metadata) of another: the reload
\* of run_training_task is seen all or nothing.  Stated over the behaviours in
\* which no pipeline stage and no load raised, so that only the interleaving of
\* the reload's assignments with the request's reads can break it.
C1_AtomicSwap ==
    (req.pc = "done" /\ req.status = 200 /\ ~everFailed /\ ~Incomplete(req.read))
        => SameGeneration(req.read)

\* C2: once the training script has ended, succeeded or failed at any stage, the
\* four artifact files on disk belong to one generation.
C2_AllFilesOrNone == PipeStopped => SameGeneration(disk)

\* C3: a retrain started through /train whose pipeline failed in some stage ends
\* in the task's training-failed branch, with the in-memory artifacts those held
\* when the task began; the reload is entered only after a run without failure.
C3_FailedRunKeepsArtifacts ==
    (pipe.failed /\ task.pc \notin {"idle", "start", "subprocess"})
        => (task.pc = "train_failed" /\ artifacts = task.snap)

\* C4: a predict request made while the artifact generation is not completely
\* loaded, in a service state no reload is changing, is answered 503.
C4_IncompleteIs503 ==
    (req.pc = "done" /\ Incomplete(req.entry) /\ artifacts = req.entry)
        => req.status = 503

Answered == presp.pc = "done" /\ presp.status = 200

\* C5: a request whose entity resolves to no history at any matching level and
\* that carries no current_price gets no successful response (no numeric
\* predicted_price): it is refused as DataUnavailable.
C5_NoHistoryNoPriceRefused ==
    (presp.pc = "done" /\ presp.matcher = "none" /\ ~preq.has_price)
        => presp.status # 200

\* C6: a request whose days_ahead is not the trained horizon is rejected before
\* any feature construction, scaling or prediction.
C6_HorizonChecked ==
    (presp.pc = "done" /\ preq.days_ahead # Horizon) => ~presp.computed

Degraded == {"substring", "county", "flat"}

\* C9: a successful response from relaxed matching or from a synthesized flat
\* history never carries the confidence of a successful response from exact-key
\* history (prev is any earlier successful response).
C9_ConfidenceTellsDegraded ==
    (/\ Answered
     /\ \/ presp.matcher \in Degraded /\ prev.matcher = "exact"
        \/ presp.matcher = "exact" /\ prev.matcher \in Degraded)
        => presp.confidence # prev.confidence

TrainedRow ==
    CHOOSE r \in {fe[i] : i \in 1..Len(fe)} : SameEntity(r, inf) /\ r.Date = inf.Date

\* C7: for every entity and date, the lag_k, ma_w and std_w that
\* feature_engineering gives the row of that date equal those the service
\* computes from the entity's history ending at that date.
C7_TrainServeSameFeatures ==
    (fe # <<>> /\ inf.pc = "done") =>
        /\ TrainedRow.lag = inf.features.lag
        /\ TrainedRow.ma = inf.features.ma
        /\ TrainedRow.std2 = inf.features.std2

\* the rows of a file whose date parses, dates parsed
Parseable(rows) == DropNaT(ParseDates(rows))

RowsOf(rows) == {rows[i] : i \in 1..Len(rows)}

\* the last row of the delta that has the key of r
LastOfDelta(r) ==
    LET d == Parseable(merged.delta)
        i == CHOOSE k \in 1..Len(d) :
                 SameKey(d[k], r) /\ \A j \in (k + 1)..Len(d) : ~SameKey(d[j], r)
    IN  d[i]

\* C8: after load_and_merge_data the file written back as the new master holds
\* exactly one row per (date, commodity, market, county) key; for a key that
\* occurs in both the old master and the delta that row is the delta's; and the
\* key of every input row with a parseable date is in it.
C8_MergeKeepsLatest ==
    merged.state = "done" =>
        LET out == ParseDates(master)
        IN  /\ \A i, j \in 1..Len(out) : i # j => ~SameKey(out[i], out[j])
            /\ \A r \in RowsOf(out) :
                  ((\E h \in RowsOf(Parseable(merged.history)) : SameKey(h, r))
                   /\ (\E d \in RowsOf(Parseable(merged.delta)) : SameKey(d, r)))
                      => r = LastOfDelta(r)
            /\ \A r \in RowsOf(Parseable(merged.history \o merged.delta)) :
                  \E o \in RowsOf(out) : SameKey(o, r)

\* a merge in which a key of the old master came again in the delta with another
\* price, and a row without a date was dropped
C8_Witness ==
    /\ merged.state = "done"
    /\ \E h \in RowsOf(Parseable(merged.history)) :
          \E d \in RowsOf(Parseable(merged.delta)) :
             SameKey(h, d) /\ h.Retail # d.Retail
    /\ Len(Parseable(merged.history \o merged.delta)) < Len(merged.history \o merged.delta)

C12_LagFallsBackToOldest ==
    inf.pc = "done" =>
        \A k \in LagSet :
            LET n == Len(inf.prices)
            IN  /\ n >= k => inf.features.lag[k] = RInt(inf.prices[n - k + 1])
                /\ (0 < n /\ n < k) => inf.features.lag[k] = RInt(inf.prices[1])
                /\ n = 0 => inf.features.lag[k] = RInt(0)

\* the prices a set of matched rows supplies: date order, the newest HistoryTail
PricesOf(rows) ==
    LET sorted == SortSeq(rows, EarlierDate)
        n      == Len(sorted)
    IN  [i \in 1..Min(n, HistoryTail) |-> sorted[n - Min(n, HistoryTail) + i].Retail]

\* C13: the history of a successful response comes from the first matcher, in the
\* order exact key, substring of the market, commodity and county, that returns
\* rows; only when none returns rows is it the flat history of a positive client
\* price, and it is empty otherwise.
C13_MatcherOrder ==
    Answered =>
        LET exact  == ExactRows(history_df, preq.commodity, preq.market, preq.county)
            substr == SubstringRows(history_df, preq.commodity, preq.market)
            cnty   == CountyRows(history_df, preq.commodity, preq.county)
            client == preq.has_price /\ preq.current_price > 0
        IN  /\ exact # <<>> =>
                  presp.matcher = "exact" /\ presp.history = PricesOf(exact)
            /\ (exact = <<>> /\ substr # <<>>) =>
                  presp.matcher = "substring" /\ presp.history = PricesOf(substr)
            /\ (exact = <<>> /\ substr = <<>> /\ cnty # <<>>) =>
                  presp.matcher = "county" /\ presp.history = PricesOf(cnty)
            /\ (exact = <<>> /\ substr = <<>> /\ cnty = <<>> /\ client) =>
                  /\ presp.matcher = "flat"
                  /\ presp.history = [i \in 1..FlatLen |-> preq.current_price]
            /\ (exact = <<>> /\ substr = <<>> /\ cnty = <<>> /\ ~client) =>
                  presp.matcher = "none" /\ presp.history = <<>>
            /\ presp.matcher = "flat" =>
                  exact = <<>> /\ substr = <<>> /\ cnty = <<>> /\ client

\* a response from the substring matcher while the commodity+county matcher
\* would have returned other rows, and a client price was supplied
C13_Witness ==
    /\ Answered
    /\ presp.matcher = "substring"
    /\ preq.has_price /\ preq.current_price > 0
    /\ LET cnty == CountyRows(history_df, preq.commodity, preq.county)
       IN  cnty # <<>> /\ PricesOf(cnty) # presp.history

\* the rows of df of the entity of r dated at or before r
OwnPast(r) ==
    LET Mine(x) == SameEntity(x, r) /\ x.Date <= r.Date
    IN  SelectSeq(df, Mine)

\* feature_engineering run on the entity's own rows up to r alone, at r
AloneAt(r) ==
    LET alone == feature_engineering(OwnPast(r))
    IN  alone[Len(alone)]

\* C14: in feature_engineering every lag_k, ma_w and std_w of a row is computed
\* from the rows of the same (commodity, market, county) dated at or before it:
\* the values are those obtained with every other row removed from the table.
C14_NoLeakage ==
    fe # <<>> =>
        \A i \in 1..Len(fe) :
            LET alone == AloneAt(fe[i])
            IN  /\ fe[i].lag = alone.lag
                /\ fe[i].ma = alone.ma
                /\ fe[i].std2 = alone.std2

\* two entity groups of at least two rows each meet in the sorted table at rows
\* of different prices, and the later rows of a series have another price
C14_Witness ==
    /\ fe # <<>>
    /\ \E i \in 1..(Len(fe) - 1) :
          /\ ~SameEntity(fe[i], fe[i + 1])
          /\ fe[i].Retail # fe[i + 1].Retail
          /\ fe[i + 1].lag[1] = NaN
          /\ i >= 2 /\ i + 2 <= Len(fe)
          /\ fe[i + 2].Retail # fe[i + 1].Retail

====
